---- MODULE Spec2Model ----
(***************************************************************************)
(* Model of scout: the sandboxed execution host (src/src/main.rs) and the  *)
(* "Bazaar" partial-merkle-tree execution script                           *)
(* (src/scripts/bazaar_partials/src/lib.rs).                               *)
(*                                                                         *)
(* Spec       the host: process_yaml_test / process_shard_block /          *)
(*            execute_code / Runtime::invoke_index, driven by an arbitrary *)
(*            guest, with guest memory modelled byte by byte.              *)
(* SpecBazaar the Bazaar guest's main / process_block run by the host,     *)
(*            with tree nodes modelled as hash terms.                      *)
(***************************************************************************)
EXTENDS Integers, Sequences, FiniteSets, TLC

(***************************************************************************)
(* Bounds of the host model.  Sizes are scaled down: a Bytes32 is RootLen  *)
(* bytes, a guest memory is PageSize bytes.                                *)
(***************************************************************************)
RootLen == 2
PageSize == 3
MaxData == 2
MaxBlocks == 2
MaxSteps == 4
MaxDepth == 3
NumEnvs == 2

\* The hard cap on nesting the specification configures (the code has none).
RecursionCap == MaxDepth - 1

Byte == 0..1
Ptrs == 0..PageSize
Envs == 0..(NumEnvs - 1)

VARIABLES
    beacon_state,   \* BeaconState: execution_scripts, one code per env
    shard_blocks,   \* TestFile.shard_blocks: the fixture's blocks
    shard_state,    \* ShardState: exec_env_states, slot, parent_block
    block_idx,      \* position of process_yaml_test's loop in shard_blocks
    frames,         \* stack of Runtime values, one per execute_code in progress
    host,           \* "running", "aborted" (a panic) or "done"
    steps,          \* guest steps taken so far (bounded by MaxSteps)
    last_call,      \* what the last step did (observation only)
    processed,      \* the blocks processed so far, with the root each was
                    \* given and the root it produced (observation only)
    guest           \* the Bazaar guest's locals (SpecBazaar only)

hvars == <<beacon_state, shard_blocks, shard_state, block_idx, frames, host,
           steps, last_call, processed>>

vars == <<hvars, guest>>

----------------------------------------------------------------------------
(* Values *)

Zeros(n) == [i \in 1..n |-> 0]

\* Bytes32::default()
ZERO_HASH == Zeros(RootLen)

\* What Module::from_buffer / ModuleInstance::new / export_by_name make of a
\* code blob: the interpreter is a black box, a blob is one of these kinds.
ModuleKinds == {"valid", "malformed", "no_memory", "no_main"}

\* A block payload of n bytes: 1, 0, 1, ...
Payload(n) == [i \in 1..n |-> i % 2]

\* The pre-state of env e in the fixture.
InitialRoot(e) == [i \in 1..RootLen |-> IF i = 1 THEN 1 ELSE e % 2]

----------------------------------------------------------------------------
(* wasmi MemoryInstance, as the host calls use it *)

\* MemoryInstance::set(offset, value): Err when the region leaves the memory.
MemSet(bytes, ptr, value) ==
    IF ptr + Len(value) > Len(bytes)
    THEN [ok |-> FALSE, bytes |-> bytes]
    ELSE [ok |-> TRUE,
          bytes |-> [i \in 1..Len(bytes) |->
                        IF i > ptr /\ i <= ptr + Len(value)
                        THEN value[i - ptr] ELSE bytes[i]]]

\* MemoryInstance::get(offset, size) / get_into(offset, target)
MemGet(bytes, ptr, size) ==
    IF ptr + size > Len(bytes)
    THEN [ok |-> FALSE, value |-> <<>>]
    ELSE [ok |-> TRUE, value |-> [i \in 1..size |-> bytes[ptr + i]]]

\* &data[offset..length]: panics unless offset <= length <= data.len()
SliceRange(data, offset, length) ==
    IF offset > length \/ length > Len(data)
    THEN [ok |-> FALSE, value |-> <<>>]
    ELSE [ok |-> TRUE, value |-> [i \in 1..(length - offset) |-> data[offset + i]]]

----------------------------------------------------------------------------
(* Runtime *)

\* A Runtime::new whose post-state root starts as the pre-state root.
RuntimeNew_PostIsPreState(code, pre_state, block_data) ==
    [code       |-> code,
     phase      |-> "Created",
     memory     |-> [owner |-> "host", bytes |-> Zeros(PageSize)],
     pre_state  |-> pre_state,
     block_data |-> block_data,
     post_state |-> pre_state,
     last_save  |-> <<>>,
     prev_save  |-> <<>>,
     n_saves    |-> 0]

\* Runtime::new
RuntimeNew(code, pre_state, block_data) ==
    [code       |-> code,
     phase      |-> "Created",
     memory     |-> [owner |-> "host", bytes |-> Zeros(PageSize)],
     pre_state  |-> pre_state,
     block_data |-> block_data,
     post_state |-> ZERO_HASH,
     last_save  |-> <<>>,    \* observation: guest bytes at the last save
     prev_save  |-> <<>>,    \* observation: guest bytes at the save before it
     n_saves    |-> 0]       \* observation: number of saves (counted up to 2)

\* A get_post_state that hands back the pre-state root.
GetPostState_PreState(rt) == rt.pre_state

\* Runtime::get_post_state
GetPostState(rt) == rt.post_state

Depth == Len(frames)
Top == frames[Depth]
SetTop(rt) == [frames EXCEPT ![Depth] = rt]

Event(op, ptr, offset, length, mem, ret, root, saved, oob) ==
    [op |-> op, ptr |-> ptr, offset |-> offset, length |-> length,
     mem |-> mem, ret |-> ret, root |-> root, saved |-> saved, oob |-> oob,
     prev |-> <<>>, n_saves |-> 0]

NoCall == Event("none", 0, 0, 0, <<>>, <<>>, <<>>, <<>>, FALSE)

\* A panic in the host (unwrap / expect / index out of range / unimplemented!):
\* the process ends; the invocation in progress, if any, ends Trapped.
Panic(ev) ==
    /\ host' = "aborted"
    /\ frames' = IF Depth = 0 THEN frames
                 ELSE SetTop([Top EXCEPT !.phase = "Trapped"])
    /\ last_call' = ev
    /\ UNCHANGED <<processed, beacon_state, shard_blocks, shard_state, block_idx>>

Running ==
    /\ host = "running"
    /\ Depth > 0
    /\ Top.phase = "Running"
    /\ steps < MaxSteps

----------------------------------------------------------------------------
(* execute_code *)

\* execute_code up to Runtime::new: the module is parsed and instantiated
\* (a malformed module panics at unwrap), then the Runtime is created.
ExecuteCode(code, pre_state, block_data, ev) ==
    IF code = "malformed"
    THEN Panic(Event("module_malformed", 0, 0, 0, <<>>, <<>>, <<>>, <<>>, FALSE))
    ELSE /\ frames' = Append(frames, RuntimeNew(code, pre_state, block_data))
         /\ last_call' = ev
         /\ UNCHANGED <<processed, beacon_state, shard_blocks, shard_state, block_idx, host>>

\* A process_shard_block that gives every block the fixture's pre-state.
ProcessShardBlock_FixturePreState ==
    /\ host = "running"
    /\ Depth = 0
    /\ block_idx <= Len(shard_blocks)
    /\ LET block == shard_blocks[block_idx]
           env == block.env
           code == beacon_state.execution_scripts[env + 1]
           pre_state == InitialRoot(env)
       IN ExecuteCode(code, pre_state, block.data,
                      Event("process_shard_block", 0, 0, 0, <<>>, <<>>,
                            pre_state, <<>>, FALSE))
    /\ UNCHANGED steps
    /\ UNCHANGED guest

\* process_shard_block, from its entry to the start of the guest's invocation
ProcessShardBlock ==
    /\ host = "running"
    /\ Depth = 0
    /\ block_idx <= Len(shard_blocks)
    /\ LET block == shard_blocks[block_idx]
           env == block.env
           code == beacon_state.execution_scripts[env + 1]
           pre_state == shard_state.exec_env_states[env + 1]
       IN ExecuteCode(code, pre_state, block.data,
                      Event("process_shard_block", 0, 0, 0, <<>>, <<>>,
                            pre_state, <<>>, FALSE))
    /\ UNCHANGED steps
    /\ UNCHANGED guest

\* An execute_code that leaves the page of Runtime::new in the runtime.
BindMemory_KeepsHostPage ==
    /\ host = "running"
    /\ Depth > 0
    /\ Top.phase = "Created"
    /\ IF Top.code = "no_memory"
       THEN Panic(Event("no_memory", 0, 0, 0, <<>>, <<>>, <<>>, <<>>, FALSE))
       ELSE /\ frames' = SetTop([Top EXCEPT !.phase = "MemoryBound"])
            /\ last_call' = NoCall
            /\ UNCHANGED <<processed, beacon_state, shard_blocks, shard_state, block_idx, host>>
    /\ UNCHANGED steps
    /\ UNCHANGED guest

\* execute_code: the module's exported memory replaces the host's page
BindMemory ==
    /\ host = "running"
    /\ Depth > 0
    /\ Top.phase = "Created"
    /\ IF Top.code = "no_memory"
       THEN Panic(Event("no_memory", 0, 0, 0, <<>>, <<>>, <<>>, <<>>, FALSE))
       ELSE /\ frames' = SetTop([Top EXCEPT
                             !.memory = [owner |-> "guest", bytes |-> Zeros(PageSize)],
                             !.phase = "MemoryBound"])
            /\ last_call' = NoCall
            /\ UNCHANGED <<processed, beacon_state, shard_blocks, shard_state, block_idx, host>>
    /\ UNCHANGED steps
    /\ UNCHANGED guest

\* execute_code: invoke_export("main", ...) starts the guest
InvokeMain ==
    /\ host = "running"
    /\ Depth > 0
    /\ Top.phase = "MemoryBound"
    /\ IF Top.code = "no_main"
       THEN Panic(Event("no_main", 0, 0, 0, <<>>, <<>>, <<>>, <<>>, FALSE))
       ELSE /\ frames' = SetTop([Top EXCEPT !.phase = "Running"])
            /\ last_call' = NoCall
            /\ UNCHANGED <<processed, beacon_state, shard_blocks, shard_state, block_idx, host>>
    /\ UNCHANGED steps
    /\ UNCHANGED guest

----------------------------------------------------------------------------
(* Runtime::invoke_index: the host calls *)

HostCallOk(rt, ev) ==
    /\ frames' = SetTop(rt)
    /\ last_call' = ev
    /\ UNCHANGED <<processed, beacon_state, shard_blocks, shard_state, block_idx, host>>

\* An eth2_loadPreStateRoot that copies the runtime's post-state root.
LoadPreStateRoot_PostState(ptr) ==
    /\ Running
    /\ LET r == MemSet(Top.memory.bytes, ptr, Top.post_state)
           ev == Event("loadprestateroot", ptr, 0, RootLen, Top.memory.bytes,
                       <<>>, Top.post_state, <<>>, ~r.ok)
       IN IF r.ok
          THEN HostCallOk([Top EXCEPT !.memory.bytes = r.bytes], ev)
          ELSE Panic(ev)
    /\ steps' = steps + 1
    /\ UNCHANGED guest

\* LOADPRESTATEROOT_FUNC_INDEX
LoadPreStateRoot(ptr) ==
    /\ Running
    /\ LET r == MemSet(Top.memory.bytes, ptr, Top.pre_state)
           ev == Event("loadprestateroot", ptr, 0, RootLen, Top.memory.bytes,
                       <<>>, Top.pre_state, <<>>, ~r.ok)
       IN IF r.ok
          THEN HostCallOk([Top EXCEPT !.memory.bytes = r.bytes], ev)
          ELSE Panic(ev)
    /\ steps' = steps + 1
    /\ UNCHANGED guest

\* SAVEPOSTSTATEROOT_FUNC_INDEX
SavePostStateRoot(ptr) ==
    /\ Running
    /\ LET r == MemGet(Top.memory.bytes, ptr, RootLen)
           ev == Event("savepoststateroot", ptr, 0, RootLen, Top.memory.bytes,
                       <<>>, r.value, <<>>, ~r.ok)
       IN IF r.ok
          THEN HostCallOk([Top EXCEPT
                             !.post_state = r.value,
                             !.last_save = [i \in 1..RootLen |-> Top.memory.bytes[ptr + i]],
                             !.prev_save = Top.last_save,
                             !.n_saves = IF @ < 2 THEN @ + 1 ELSE @], ev)
          ELSE Panic(ev)
    /\ steps' = steps + 1
    /\ UNCHANGED guest

\* BLOCKDATASIZE_FUNC_INDEX
BlockDataSize ==
    /\ Running
    /\ HostCallOk(Top, Event("blockdatasize", 0, 0, 0, Top.memory.bytes,
                             <<Len(Top.block_data)>>, <<>>, <<>>, FALSE))
    /\ steps' = steps + 1
    /\ UNCHANGED guest

\* BLOCKDATACOPY_FUNC_INDEX
BlockDataCopy(ptr, offset, length) ==
    /\ Running
    /\ LET s == SliceRange(Top.block_data, offset, length)
           r == MemSet(Top.memory.bytes, ptr, s.value)
           oob == offset + length > Len(Top.block_data)
                     \/ ptr + length > Len(Top.memory.bytes)
           ev == Event("blockdatacopy", ptr, offset, length, Top.memory.bytes,
                       <<>>, <<>>, <<>>, oob)
       IN IF s.ok /\ r.ok
          THEN HostCallOk([Top EXCEPT !.memory.bytes = r.bytes], ev)
          ELSE Panic(ev)
    /\ steps' = steps + 1
    /\ UNCHANGED guest

\* PUSHNEWDEPOSIT_FUNC_INDEX: unimplemented!()
PushNewDeposit(ptr) ==
    /\ Running
    /\ Panic(Event("pushnewdeposit", ptr, 0, 0, Top.memory.bytes, <<>>, <<>>,
                   <<>>, FALSE))
    /\ steps' = steps + 1
    /\ UNCHANGED guest

\* An eth2_execCode that hands the caller's block payload to the nested guest.
ExecCode_CallerPayload(ptr, length, kind) ==
    /\ Running
    /\ Depth < MaxDepth
    /\ LET r == MemGet(Top.memory.bytes, ptr, length)
           ev == Event("execcode", ptr, 0, length, Top.memory.bytes, <<>>,
                       <<>>, <<>>, ~r.ok)
       IN IF r.ok
          THEN ExecuteCode(kind, Top.pre_state, Top.block_data, ev)
          ELSE Panic(ev)
    /\ steps' = steps + 1
    /\ UNCHANGED guest

\* EXECCODE_FUNC_INDEX, up to the start of the nested guest
ExecCode(ptr, length, kind) ==
    /\ Running
    /\ Depth < MaxDepth
    /\ LET r == MemGet(Top.memory.bytes, ptr, length)
           ev == Event("execcode", ptr, 0, length, Top.memory.bytes, <<>>,
                       <<>>, <<>>, ~r.ok)
       IN IF r.ok
          THEN ExecuteCode(kind, Top.pre_state, <<>>, ev)
          ELSE Panic(ev)
    /\ steps' = steps + 1
    /\ UNCHANGED guest

----------------------------------------------------------------------------
(* The guest *)

\* The guest stores a byte into its own memory.
GuestStore(addr, val) ==
    /\ Running
    /\ addr < Len(Top.memory.bytes)
    /\ Top.memory.bytes[addr + 1] # val
    /\ HostCallOk([Top EXCEPT !.memory.bytes[addr + 1] = val], NoCall)
    /\ steps' = steps + 1
    /\ UNCHANGED guest

\* The guest traps (unreachable, a failed assertion, its own out-of-bounds
\* access): invoke_export returns Err and expect("Executed 'main'") panics.
TrapInMain ==
    /\ host = "running"
    /\ Depth > 0
    /\ Top.phase = "Running"
    /\ Panic(Event("guest_trap", 0, 0, 0, Top.memory.bytes, <<>>, <<>>, <<>>, FALSE))
    /\ UNCHANGED steps

\* A return whose root is also written into the calling guest's runtime.
ReturnFromMain_IntoCaller ==
    /\ host = "running"
    /\ Depth > 0
    /\ Top.phase = "Running"
    /\ LET post_state == GetPostState(Top)
           ev == Event(IF Depth = 1 THEN "block_return" ELSE "execcode_return",
                       0, 0, 0, Top.memory.bytes, <<>>, post_state,
                       Top.last_save, FALSE)
       IN /\ last_call' = [ev EXCEPT !.n_saves = Top.n_saves, !.prev = Top.prev_save]
          /\ frames' = IF Depth = 1 THEN <<>>
                       ELSE [SubSeq(frames, 1, Depth - 1) EXCEPT
                               ![Depth - 1].post_state = post_state]
          /\ IF Depth = 1
             THEN /\ shard_state' = [shard_state EXCEPT
                        !.exec_env_states[shard_blocks[block_idx].env + 1] = post_state]
                  /\ block_idx' = block_idx + 1
                  /\ processed' = Append(processed,
                                         [env |-> shard_blocks[block_idx].env,
                                          pre_state |-> Top.pre_state,
                                          post_state |-> post_state])
             ELSE UNCHANGED <<shard_state, block_idx, processed>>
    /\ UNCHANGED <<beacon_state, shard_blocks, host, steps>>

\* A return whose root is stored in the first entry, whatever the env.
ReturnFromMain_FirstEntry ==
    /\ host = "running"
    /\ Depth > 0
    /\ Top.phase = "Running"
    /\ LET post_state == GetPostState(Top)
           ev == Event(IF Depth = 1 THEN "block_return" ELSE "execcode_return",
                       0, 0, 0, Top.memory.bytes, <<>>, post_state,
                       Top.last_save, FALSE)
       IN /\ last_call' = [ev EXCEPT !.n_saves = Top.n_saves, !.prev = Top.prev_save]
          /\ frames' = SubSeq(frames, 1, Depth - 1)
          /\ IF Depth = 1
             THEN /\ shard_state' = [shard_state EXCEPT
                        !.exec_env_states[1] = post_state]
                  /\ block_idx' = block_idx + 1
                  /\ processed' = Append(processed,
                                         [env |-> shard_blocks[block_idx].env,
                                          pre_state |-> Top.pre_state,
                                          post_state |-> post_state])
             ELSE UNCHANGED <<shard_state, block_idx, processed>>
    /\ UNCHANGED <<beacon_state, shard_blocks, host, steps>>

\* main returns: execute_code returns (runtime.get_post_state(), deposits).
\* At the top level process_shard_block stores it; in a nested call
\* invoke_index prints it and returns Ok(None) to the calling guest.
ReturnFromMain ==
    /\ host = "running"
    /\ Depth > 0
    /\ Top.phase = "Running"
    /\ LET post_state == GetPostState(Top)
           ev == Event(IF Depth = 1 THEN "block_return" ELSE "execcode_return",
                       0, 0, 0, Top.memory.bytes, <<>>, post_state,
                       Top.last_save, FALSE)
       IN /\ last_call' = [ev EXCEPT !.n_saves = Top.n_saves, !.prev = Top.prev_save]
          /\ frames' = SubSeq(frames, 1, Depth - 1)
          /\ IF Depth = 1
             THEN /\ shard_state' = [shard_state EXCEPT
                        !.exec_env_states[shard_blocks[block_idx].env + 1] = post_state]
                  /\ block_idx' = block_idx + 1
                  /\ processed' = Append(processed,
                                         [env |-> shard_blocks[block_idx].env,
                                          pre_state |-> Top.pre_state,
                                          post_state |-> post_state])
             ELSE UNCHANGED <<shard_state, block_idx, processed>>
    /\ UNCHANGED <<beacon_state, shard_blocks, host, steps>>

\* The arbitrary guest traps.
GuestTrap == TrapInMain /\ UNCHANGED guest

\* The arbitrary guest returns from main.
GuestReturn == ReturnFromMain /\ UNCHANGED guest

\* process_yaml_test after the loop: assert_eq!(shard_state, post_state)
Finish(expected_ok) ==
    /\ host = "running"
    /\ Depth = 0
    /\ block_idx > Len(shard_blocks)
    /\ host' = IF expected_ok THEN "done" ELSE "aborted"
    /\ last_call' = Event("assert_eq", 0, 0, 0, <<>>, <<>>, <<>>, <<>>, FALSE)
    /\ UNCHANGED <<processed, beacon_state, shard_blocks, shard_state, block_idx, frames, steps>>
    /\ UNCHANGED guest

----------------------------------------------------------------------------

\* The fixture's blocks: any env, a payload of MaxData bytes.
BlockSet == [env : Envs, data : {Payload(MaxData)}]

\* The fixture's scripts: env 0 holds a well-formed module, the others hold
\* modules of one kind.
ScriptSets == {[e \in 1..NumEnvs |-> IF e = 1 THEN "valid" ELSE k] : k \in ModuleKinds}

HostInit ==
    /\ beacon_state \in [execution_scripts : ScriptSets]
    /\ shard_blocks \in UNION {[1..n -> BlockSet] : n \in 0..MaxBlocks}
    /\ shard_state = [exec_env_states |-> [e \in 1..NumEnvs |-> InitialRoot(e - 1)],
                      slot |-> 0,
                      parent_block |-> "ShardBlockHeader"]
    /\ block_idx = 1
    /\ frames = <<>>
    /\ host = "running"
    /\ steps = 0
    /\ last_call = NoCall
    /\ processed = <<>>

\* The host model runs no Bazaar guest.
NoGuest == [pc |-> "none"]

Init == HostInit /\ guest = NoGuest

\* The guest is arbitrary; its arguments are drawn from offsets at the start
\* and at the end of its memory, in range and out of range; it stores to the
\* first byte of its memory.
Next ==
    \/ ProcessShardBlock
    \/ BindMemory
    \/ InvokeMain
    \/ \E ptr \in {0, PageSize - 1} : LoadPreStateRoot(ptr)
    \/ \E ptr \in {0, PageSize - RootLen, PageSize - 1} : SavePostStateRoot(ptr)
    \/ BlockDataSize
    \/ \E ptr \in {0, PageSize - 1},
          range \in {<<0, 1>>, <<0, MaxData>>, <<1, 1>>, <<0, MaxData + 1>>} :
          BlockDataCopy(ptr, range[1], range[2])
    \/ PushNewDeposit(0)
    \/ \E ptr \in {0, PageSize}, kind \in ModuleKinds : ExecCode(ptr, 1, kind)
    \/ \E val \in Byte : GuestStore(0, val)
    \/ GuestTrap
    \/ GuestReturn
    \/ \E expected_ok \in BOOLEAN : Finish(expected_ok)

Spec == Init /\ [][Next]_vars

\* process_shard_block(state, beacon_state, None): the function is public
\* and takes an Option; process_yaml_test always passes Some(block).
ProcessShardBlockNone ==
    /\ host = "running"
    /\ Depth = 0
    /\ last_call' = Event("process_shard_block_none", 0, 0, 0, <<>>, <<>>, <<>>,
                          <<>>, FALSE)
    /\ UNCHANGED <<processed, beacon_state, shard_blocks, shard_state, block_idx,
                   frames, host, steps>>
    /\ UNCHANGED guest

\* process_shard_block under any caller: the driver's calls, and calls
\* without a block between them.
NextAnyCaller ==
    \/ Next
    \/ ProcessShardBlockNone

SpecAnyCaller == Init /\ [][NextAnyCaller]_vars

----------------------------------------------------------------------------
(***************************************************************************)
(* The Bazaar execution script.  A chunk is BYTES_PER_CHUNK bytes; a hash  *)
(* is the term of its two inputs, written as the sequence -1, left, right, *)
(* so that two hashes are equal exactly when their inputs are.             *)
(***************************************************************************)
BYTES_PER_CHUNK == 32
LIST_CAPACITY == 8
MaxNew == 2

ZeroChunk == [i \in 1..BYTES_PER_CHUNK |-> 0]

\* merkle_partial::cache::hash_children
hash_children(left, right) == <<-1>> \o left \o right

\* tests::zero_hash
RECURSIVE zero_hash(_)
zero_hash(depth) ==
    IF depth = 0 THEN ZeroChunk
    ELSE IF depth = 1 THEN hash_children(ZeroChunk, ZeroChunk)
    ELSE LET last == zero_hash(depth - 1) IN hash_children(last, last)

\* t >> (8 * k)
RECURSIVE ShiftRight(_, _)
ShiftRight(t, k) == IF k = 0 THEN t ELSE ShiftRight(t \div 256, k - 1)

\* u64::as_ssz_bytes: 8 bytes, little-endian
TimestampBytes(t) == [k \in 1..8 |-> ShiftRight(t, k - 1) % 256]

\* A scalar's bytes zero-extended to a chunk.
Extend(bytes) == [i \in 1..BYTES_PER_CHUNK |-> IF i <= Len(bytes) THEN bytes[i] ELSE 0]

\* A length field with the count in its last byte.
LenBytes_LastByte(n) == [i \in 1..BYTES_PER_CHUNK |-> IF i = BYTES_PER_CHUNK THEN n % 256 ELSE 0]

\* process_block's length field: len[0] = block.new_messages.len() as u8
LenBytes(n) == [i \in 1..BYTES_PER_CHUNK |-> IF i = 1 THEN n % 256 ELSE 0]

\* Message { timestamp, message }
Message(t, b) == [timestamp |-> t, message |-> [i \in 1..BYTES_PER_CHUNK |-> b]]

\* The two messages of tests::generate_input_block
Msg1 == Message(1, 1)
Msg2 == Message(2, 42)

----------------------------------------------------------------------------
(* The State tree: the root is node 0, the children of node i are 2i+1 and *)
(* 2i+2; node 1 is the root of the messages, node 2 the mixed-in length,   *)
(* nodes 31 + 2e and 32 + 2e the timestamp and the message of element e.   *)

LeftChild(i) == 2 * i + 1

\* A right child numbered as if the root were node 1.
RightChild_RootIsOne(i) == 2 * i + 1

RightChild(i) == 2 * i + 2
Parent(i) == (i - 1) \div 2
LEN_INDEX == 2
FIRST_LEAF == 31
LastLeaf == FIRST_LEAF + 2 * LIST_CAPACITY - 1

RECURSIVE Ancestors(_)
Ancestors(i) == IF i = 0 THEN {} ELSE {Parent(i)} \cup Ancestors(Parent(i))

\* The node of the complete tree of a State holding msgs with length field len.
RECURSIVE TreeNode(_, _, _)
TreeNode(i, msgs, len) ==
    IF i = LEN_INDEX THEN LenBytes(len)
    ELSE IF i >= FIRST_LEAF
    THEN LET e == (i - FIRST_LEAF) \div 2
         IN IF e >= Len(msgs) THEN ZeroChunk
            ELSE IF (i - FIRST_LEAF) % 2 = 0
                 THEN Extend(TimestampBytes(msgs[e + 1].timestamp))
                 ELSE msgs[e + 1].message
    ELSE hash_children(TreeNode(LeftChild(i), msgs, len),
                       TreeNode(RightChild(i), msgs, len))

\* The root of the complete tree, hashed bottom-up.
StateRoot(msgs) == TreeNode(0, msgs, Len(msgs))

----------------------------------------------------------------------------
(* merkle_partial::Partial<State>: a cache of nodes and the set of nodes    *)
(* whose hash is out of date.                                               *)

\* SerializedPartial { indices, chunks }, one chunk per index
SerializedPartial(indices, chunks) == [indices |-> indices, chunks |-> chunks]

\* Partial::new: the supplied nodes, before fill
PartialNew(sp) ==
    [cache |-> [n \in {sp.indices[k] : k \in 1..Len(sp.indices)} |->
                   sp.chunks[CHOOSE k \in 1..Len(sp.indices) : sp.indices[k] = n]],
     dirty |-> {}]

\* The parents that can be derived from the cache and are not in it.
Derivable(cache) ==
    {n \in {Parent(c) : c \in DOMAIN cache \ {0}} :
        /\ n \notin DOMAIN cache
        /\ LeftChild(n) \in DOMAIN cache
        /\ RightChild(n) \in DOMAIN cache}

RECURSIVE FillCache(_)
FillCache(cache) ==
    LET new == Derivable(cache)
    IN IF new = {} THEN cache
       ELSE FillCache([n \in DOMAIN cache \cup new |->
                         IF n \in new
                         THEN hash_children(cache[LeftChild(n)], cache[RightChild(n)])
                         ELSE cache[n]])

\* Partial::fill: Err when indices and chunks disagree in number, else every
\* node that can be derived from the supplied ones is added.
Fill(sp) ==
    IF Len(sp.indices) # Len(sp.chunks)
    THEN [ok |-> FALSE, partial |-> PartialNew(SerializedPartial(<<>>, <<>>))]
    ELSE [ok |-> TRUE,
          partial |-> [cache |-> FillCache(PartialNew(sp).cache), dirty |-> {}]]

\* Partial::root: the cached root, Err when it is not in the cache
Root(partial) ==
    IF 0 \in DOMAIN partial.cache
    THEN [ok |-> TRUE, value |-> partial.cache[0]]
    ELSE [ok |-> FALSE, value |-> <<>>]

\* The paths process_block uses: messages.len, messages[i].timestamp and
\* messages[i].message[j], resolved to a node and a byte offset in its chunk.
PathLen == [field |-> "len", index |-> 0, byte |-> 0]
PathTimestamp(i) == [field |-> "timestamp", index |-> i, byte |-> 0]
PathMessageByte(i, j) == [field |-> "message", index |-> i, byte |-> j]

ResolvePath(path) ==
    IF path.field = "len" THEN [ok |-> TRUE, node |-> LEN_INDEX, offset |-> 0]
    ELSE IF path.index >= LIST_CAPACITY THEN [ok |-> FALSE, node |-> 0, offset |-> 0]
    ELSE IF path.field = "timestamp"
    THEN [ok |-> TRUE, node |-> FIRST_LEAF + 2 * path.index, offset |-> 0]
    ELSE [ok |-> TRUE, node |-> FIRST_LEAF + 2 * path.index + 1, offset |-> path.byte]

\* Partial::set_bytes: overwrite bytes of the addressed chunk and mark its
\* ancestors; Err when the path is out of range or the chunk is not cached.
SetBytes(partial, path, bytes) ==
    LET r == ResolvePath(path)
    IN IF ~r.ok \/ r.node \notin DOMAIN partial.cache
          \/ r.offset + Len(bytes) > BYTES_PER_CHUNK
       THEN [ok |-> FALSE, partial |-> partial]
       ELSE [ok |-> TRUE,
             partial |->
               [cache |-> [partial.cache EXCEPT ![r.node] =
                             [i \in 1..BYTES_PER_CHUNK |->
                                IF i > r.offset /\ i <= r.offset + Len(bytes)
                                THEN bytes[i - r.offset] ELSE @[i]]],
                dirty |-> partial.dirty \cup Ancestors(r.node)]]

Max(S) == CHOOSE x \in S : \A y \in S : y <= x

\* Partial::refresh: rehash the marked nodes, children before parents; Err
\* when a child of a marked node is not cached.
RECURSIVE Refresh(_)
Refresh(partial) ==
    IF partial.dirty = {} THEN [ok |-> TRUE, partial |-> partial]
    ELSE LET n == Max(partial.dirty)
         IN IF LeftChild(n) \notin DOMAIN partial.cache
               \/ RightChild(n) \notin DOMAIN partial.cache
            THEN [ok |-> FALSE, partial |-> partial]
            ELSE Refresh(
                   [cache |-> [m \in DOMAIN partial.cache \cup {n} |->
                                 IF m = n
                                 THEN hash_children(partial.cache[LeftChild(n)],
                                                    partial.cache[RightChild(n)])
                                 ELSE partial.cache[m]],
                    dirty |-> partial.dirty \ {n}])

----------------------------------------------------------------------------
(* The Bazaar guest: main and process_block.  The guest's memory is not     *)
(* modelled here: a host call moves a whole root or the whole block.        *)

BzRunning ==
    /\ host = "running"
    /\ Depth = 1
    /\ Top.phase = "Running"

EmptyPartial == [cache |-> <<>>, dirty |-> {}]

InputBlock(valid, new_messages, state) ==
    [valid |-> valid, new_messages |-> new_messages, state |-> state]

GuestStart ==
    [pc |-> "start", pre_state_root |-> <<>>, block_data |-> InputBlock(FALSE, <<>>, SerializedPartial(<<>>, <<>>)),
     partial |-> EmptyPartial, i |-> 0, ret |-> <<>>, failure |-> "",
     fill_root |-> <<>>, ops |-> <<>>]

\* A step of the guest that makes no host call.
BzLocal(g) ==
    /\ guest' = g
    /\ UNCHANGED hvars

\* A panic of the guest (expect, unwrap, assert_eq!): main traps.
BzPanic(failure) ==
    /\ TrapInMain
    /\ guest' = [guest EXCEPT !.pc = "panicked", !.failure = failure]

\* main: eth2::load_pre_state_root()
BzLoadPreStateRoot ==
    /\ BzRunning
    /\ guest.pc = "start"
    /\ guest' = [guest EXCEPT !.pc = "acquire", !.pre_state_root = Top.pre_state]
    /\ last_call' = Event("loadprestateroot", 0, 0, 0, <<>>, <<>>, Top.pre_state, <<>>, FALSE)
    /\ UNCHANGED <<processed, beacon_state, shard_blocks, shard_state, block_idx, frames, host, steps>>

\* main: eth2::acquire_block_data()
BzAcquireBlockData ==
    /\ BzRunning
    /\ guest.pc = "acquire"
    /\ guest' = [guest EXCEPT !.pc = "decode", !.block_data = Top.block_data]
    /\ last_call' = Event("blockdatacopy", 0, 0, 0, <<>>, <<>>, <<>>, <<>>, FALSE)
    /\ UNCHANGED <<processed, beacon_state, shard_blocks, shard_state, block_idx, frames, host, steps>>

\* process_block: InputBlock::from_ssz_bytes(&block_data).expect("valid input")
BzDecode ==
    /\ BzRunning
    /\ guest.pc = "decode"
    /\ IF guest.block_data.valid
       THEN BzLocal([guest EXCEPT !.pc = "fill"])
       ELSE BzPanic("DecodeError")

\* process_block: Partial::new(block.state), assert_eq!(partial.fill(), Ok(()))
BzFill ==
    /\ BzRunning
    /\ guest.pc = "fill"
    /\ LET r == Fill(guest.block_data.state)
       IN IF r.ok
          THEN BzLocal([guest EXCEPT !.pc = "check_root", !.partial = r.partial,
                                     !.fill_root = Root(r.partial).value,
                                     !.ops = Append(@, "fill")])
          ELSE BzPanic("fill")

\* A root check that lets every root pass.
BzCheckRoot_NoAssert ==
    /\ BzRunning
    /\ guest.pc = "check_root"
    /\ LET r == Root(guest.partial)
       IN IF ~r.ok THEN BzPanic("NotComputed")
          ELSE BzLocal([guest EXCEPT
                   !.pc = IF Len(guest.block_data.new_messages) = 0
                          THEN "set_len" ELSE "set_timestamp",
                   !.i = 0, !.ops = Append(@, "root_check")])

\* process_block: assert_eq!(partial.root().unwrap(), &pre_state_root.bytes.to_vec())
BzCheckRoot ==
    /\ BzRunning
    /\ guest.pc = "check_root"
    /\ LET r == Root(guest.partial)
       IN IF ~r.ok THEN BzPanic("NotComputed")
          ELSE IF r.value # guest.pre_state_root THEN BzPanic("PreStateMismatch")
          ELSE BzLocal([guest EXCEPT
                   !.pc = IF Len(guest.block_data.new_messages) = 0
                          THEN "set_len" ELSE "set_timestamp",
                   !.i = 0, !.ops = Append(@, "root_check")])

\* process_block: the timestamp of new message i
BzSetTimestamp ==
    /\ BzRunning
    /\ guest.pc = "set_timestamp"
    /\ LET msg == guest.block_data.new_messages[guest.i + 1]
           r == SetBytes(guest.partial, PathTimestamp(guest.i),
                         TimestampBytes(msg.timestamp))
       IN IF r.ok
          THEN BzLocal([guest EXCEPT !.pc = "set_message", !.partial = r.partial,
                                     !.ops = Append(@, "set_bytes")])
          ELSE BzPanic("set_bytes")

\* for j in 0..32: set_bytes(messages[i].message[j], [message[j]])
RECURSIVE SetMessageBytes(_, _, _, _)
SetMessageBytes(partial, i, msg, j) ==
    IF j = BYTES_PER_CHUNK THEN [ok |-> TRUE, partial |-> partial]
    ELSE LET r == SetBytes(partial, PathMessageByte(i, j), <<msg.message[j + 1]>>)
         IN IF r.ok THEN SetMessageBytes(r.partial, i, msg, j + 1) ELSE r

\* process_block: the bytes of new message i, then the next message
BzSetMessage ==
    /\ BzRunning
    /\ guest.pc = "set_message"
    /\ LET msg == guest.block_data.new_messages[guest.i + 1]
           r == SetMessageBytes(guest.partial, guest.i, msg, 0)
       IN IF r.ok
          THEN BzLocal([guest EXCEPT
                   !.pc = IF guest.i + 1 < Len(guest.block_data.new_messages)
                          THEN "set_timestamp" ELSE "set_len",
                   !.i = guest.i + 1, !.partial = r.partial,
                   !.ops = Append(@, "set_bytes")])
          ELSE BzPanic("set_bytes")

\* A length write after which the root is read without a refresh.
BzSetLen_NoRefresh ==
    /\ BzRunning
    /\ guest.pc = "set_len"
    /\ LET r == SetBytes(guest.partial, PathLen,
                         LenBytes(Len(guest.block_data.new_messages)))
       IN IF r.ok
          THEN BzLocal([guest EXCEPT !.pc = "read_root", !.partial = r.partial,
                                     !.ops = Append(@, "set_len")])
          ELSE BzPanic("set_bytes")

\* process_block: the length field
BzSetLen ==
    /\ BzRunning
    /\ guest.pc = "set_len"
    /\ LET r == SetBytes(guest.partial, PathLen,
                         LenBytes(Len(guest.block_data.new_messages)))
       IN IF r.ok
          THEN BzLocal([guest EXCEPT !.pc = "refresh", !.partial = r.partial,
                                     !.ops = Append(@, "set_len")])
          ELSE BzPanic("set_bytes")

\* process_block: assert_eq!(partial.refresh(), Ok(()))
BzRefresh ==
    /\ BzRunning
    /\ guest.pc = "refresh"
    /\ LET r == Refresh(guest.partial)
       IN IF r.ok
          THEN BzLocal([guest EXCEPT !.pc = "read_root", !.partial = r.partial,
                                     !.ops = Append(@, "refresh")])
          ELSE BzPanic("refresh")

\* process_block: ret.bytes.copy_from_slice(&partial.root().unwrap()[0..32])
BzReadRoot ==
    /\ BzRunning
    /\ guest.pc = "read_root"
    /\ LET r == Root(guest.partial)
       IN IF r.ok
          THEN BzLocal([guest EXCEPT !.pc = "save", !.ret = r.value,
                                     !.ops = Append(@, "root")])
          ELSE BzPanic("NotComputed")

\* main: eth2::save_post_state_root(post_state_root)
BzSavePostStateRoot ==
    /\ BzRunning
    /\ guest.pc = "save"
    /\ guest' = [guest EXCEPT !.pc = "return"]
    /\ frames' = SetTop([Top EXCEPT !.post_state = guest.ret,
                                    !.prev_save = Top.last_save,
                                    !.last_save = guest.ret,
                                    !.n_saves = IF @ < 2 THEN @ + 1 ELSE @])
    /\ last_call' = Event("savepoststateroot", 0, 0, 0, <<>>, <<>>, guest.ret, <<>>, FALSE)
    /\ UNCHANGED <<processed, beacon_state, shard_blocks, shard_state, block_idx, host, steps>>

\* main returns
BzReturn ==
    /\ guest.pc = "return"
    /\ ReturnFromMain
    /\ guest' = [guest EXCEPT !.pc = "returned"]

----------------------------------------------------------------------------
(* The blocks and pre-states the Bazaar guest is run on *)

Sibling(n) == IF n % 2 = 1 THEN n + 1 ELSE n - 1

\* The siblings along the path from node n to the root.
RECURSIVE ProofIndices(_)
ProofIndices(n) == IF n = 0 THEN <<>> ELSE <<Sibling(n)>> \o ProofIndices(Parent(n))

\* The ancestors of node n, the root last.
RECURSIVE PathIndices(_)
PathIndices(n) == IF n = 0 THEN <<>> ELSE <<Parent(n)>> \o PathIndices(Parent(n))

\* The named nodes of the State holding msgs, as a SerializedPartial.
PartialOf(indices, msgs) ==
    SerializedPartial(indices, [k \in 1..Len(indices) |-> TreeNode(indices[k], msgs, Len(msgs))])

\* A fixture whose node 8 is the hash of two zero chunks.
FixturePartial_Wrong8 ==
    SerializedPartial(<<31, 32, 33, 34, 8, 4, 2>>,
                      <<ZeroChunk, ZeroChunk, ZeroChunk, ZeroChunk,
                        zero_hash(1), zero_hash(3), ZeroChunk>>)

\* tests::generate_input_block: the empty list, with the leaves of its first
\* two elements
FixturePartial ==
    SerializedPartial(<<31, 32, 33, 34, 8, 4, 2>>,
                      <<ZeroChunk, ZeroChunk, ZeroChunk, ZeroChunk,
                        zero_hash(2), zero_hash(3), ZeroChunk>>)

\* A leaf of the empty State with the siblings along its path.
ZeroProof(leaf) == PartialOf(<<leaf>> \o ProofIndices(leaf), <<>>)

\* The same with the nodes of the path themselves.
ZeroPath(leaf) == PartialOf(<<leaf>> \o ProofIndices(leaf) \o PathIndices(leaf), <<>>)

Leaves == (FIRST_LEAF..LastLeaf) \cup {LEN_INDEX}

Partials ==
    {FixturePartial}
        \cup {ZeroProof(leaf) : leaf \in Leaves}
        \cup {ZeroPath(FIRST_LEAF)}
        \* a State that holds Msg2 already
        \cup {PartialOf(<<31, 32, 33, 34, 8, 4, 2>>, <<Msg2>>)}
        \* without the length: the root cannot be derived
        \cup {PartialOf(<<31, 32, 33, 34, 8, 4>>, <<>>)}
        \* one chunk short
        \cup {SerializedPartial(<<31, 32>>, <<ZeroChunk>>)}
        \* the first element and the two halves of the root, without node 16
        \cup {PartialOf(<<31, 32, 2, 1>>, <<>>)}

NewMessages == UNION {[1..n -> {Msg1, Msg2}] : n \in 0..MaxNew}

InputBlocks ==
    {InputBlock(TRUE, m, sp) : m \in NewMessages, sp \in Partials}
        \cup {InputBlock(FALSE, <<>>, SerializedPartial(<<>>, <<>>))}

PreRoots == {StateRoot(<<>>), StateRoot(<<Msg2>>), ZeroChunk}

BazaarInit ==
    /\ beacon_state = [execution_scripts |-> <<"valid">>]
    /\ \E block \in InputBlocks : shard_blocks = <<[env |-> 0, data |-> block]>>
    /\ \E pre \in PreRoots :
          shard_state = [exec_env_states |-> <<pre>>, slot |-> 0,
                         parent_block |-> "ShardBlockHeader"]
    /\ block_idx = 1
    /\ frames = <<>>
    /\ host = "running"
    /\ steps = 0
    /\ last_call = NoCall
    /\ processed = <<>>
    /\ guest = GuestStart

BazaarNext ==
    \/ ProcessShardBlock
    \/ BindMemory
    \/ InvokeMain
    \/ BzLoadPreStateRoot
    \/ BzAcquireBlockData
    \/ BzDecode
    \/ BzFill
    \/ BzCheckRoot
    \/ BzSetTimestamp
    \/ BzSetMessage
    \/ BzSetLen
    \/ BzRefresh
    \/ BzReadRoot
    \/ BzSavePostStateRoot
    \/ BzReturn
    \/ \E expected_ok \in BOOLEAN : Finish(expected_ok)

SpecBazaar == BazaarInit /\ [][BazaarNext]_vars

----------------------------------------------------------------------------
(***************************************************************************)
(* Edits of a partial in any order: set_bytes calls on different chunks,   *)
(* each made once, in an order the caller chooses, then one refresh.       *)
(***************************************************************************)

\* A set_bytes call: a path and the bytes to write there.
Edit(path, bytes) == [path |-> path, bytes |-> bytes]

\* The chunk an edit addresses.
EditNode(e) == ResolvePath(e.path).node

\* The calls process_block makes on the first two elements and the length,
\* with the values of tests::generate_input_block and some others.
EditPool ==
    {Edit(PathTimestamp(0), TimestampBytes(1)),
     Edit(PathTimestamp(0), TimestampBytes(258)),
     Edit(PathMessageByte(0, 0), <<1>>),
     Edit(PathMessageByte(0, 31), <<42>>),
     Edit(PathTimestamp(1), TimestampBytes(2)),
     Edit(PathMessageByte(1, 0), Msg2.message),
     Edit(PathLen, LenBytes(1)),
     Edit(PathLen, LenBytes(2))}

\* Sets of edits addressed to pairwise different chunks.
EditSets ==
    {S \in SUBSET EditPool : \A a, b \in S : a # b => EditNode(a) # EditNode(b)}

\* The partials edited: the fixture's, and the same nodes of a State that
\* holds Msg2.
EditPartials ==
    {Fill(FixturePartial).partial,
     Fill(PartialOf(<<31, 32, 33, 34, 8, 4, 2>>, <<Msg2>>)).partial}

EditsInit ==
    /\ beacon_state = [execution_scripts |-> <<>>]
    /\ shard_blocks = <<>>
    /\ shard_state = [exec_env_states |-> <<>>, slot |-> 0,
                      parent_block |-> "ShardBlockHeader"]
    /\ block_idx = 1
    /\ frames = <<>>
    /\ host = "running"
    /\ steps = 0
    /\ last_call = NoCall
    /\ processed = <<>>
    /\ \E start \in EditPartials, edits \in EditSets :
          guest = [pc |-> "edit", start |-> start, partial |-> start,
                   edits |-> edits, pending |-> edits, order |-> <<>>,
                   ok |-> TRUE, root |-> <<>>]

\* A set_bytes whose marks replace the marks of the calls before it.
ApplyEdit_ForgetsMarks(e) ==
    /\ guest.pc = "edit"
    /\ e \in guest.pending
    /\ LET r == SetBytes([guest.partial EXCEPT !.dirty = {}], e.path, e.bytes)
       IN guest' = [guest EXCEPT !.partial = r.partial,
                                 !.pending = @ \ {e},
                                 !.order = Append(@, EditNode(e)),
                                 !.ok = @ /\ r.ok]
    /\ UNCHANGED hvars

\* partial.set_bytes(path, bytes), for one of the edits not yet made
ApplyEdit(e) ==
    /\ guest.pc = "edit"
    /\ e \in guest.pending
    /\ LET r == SetBytes(guest.partial, e.path, e.bytes)
       IN guest' = [guest EXCEPT !.partial = r.partial,
                                 !.pending = @ \ {e},
                                 !.order = Append(@, EditNode(e)),
                                 !.ok = @ /\ r.ok]
    /\ UNCHANGED hvars

\* partial.refresh(), once every edit is made, then partial.root()
RefreshOnce ==
    /\ guest.pc = "edit"
    /\ guest.pending = {}
    /\ LET r == Refresh(guest.partial)
       IN guest' = [guest EXCEPT !.pc = "refreshed",
                                 !.partial = r.partial,
                                 !.ok = @ /\ r.ok,
                                 !.root = Root(r.partial).value]
    /\ UNCHANGED hvars

EditsNext ==
    \/ \E e \in EditPool : ApplyEdit(e)
    \/ RefreshOnce

SpecEdits == EditsInit /\ [][EditsNext]_vars

\* The edits of S made in the order of their chunks' indices.
RECURSIVE ApplyInOrder(_, _)
ApplyInOrder(partial, S) ==
    IF S = {} THEN partial
    ELSE LET e == CHOOSE a \in S : \A b \in S : EditNode(a) <= EditNode(b)
         IN ApplyInOrder(SetBytes(partial, e.path, e.bytes).partial, S \ {e})

\* C13: whatever the order in which the set_bytes calls of a set of edits to
\* pairwise different chunks were made, after one refresh the cache and the
\* root are those of the edits made in the order of their chunks' indices.
C13_OrderIndependent ==
    guest.pc = "refreshed" =>
        LET r == Refresh(ApplyInOrder(guest.start, guest.edits))
        IN /\ guest.ok
           /\ r.ok
           /\ guest.partial = r.partial
           /\ guest.root = Root(r.partial).value

\* C13 witness: the length, both chunks of element 1 and the timestamp of
\* element 0 were written in that order, and the refresh changed the root.
C13_Witness ==
    /\ guest.pc = "refreshed"
    /\ guest.order = <<LEN_INDEX, FIRST_LEAF + 3, FIRST_LEAF + 2, FIRST_LEAF>>
    /\ guest.root # Root(guest.start).value
    /\ guest.partial.dirty = {}

----------------------------------------------------------------------------
(* Properties of the host *)

\* The env of the block whose invocation last returned.
ReturnedEnv == shard_blocks[block_idx - 1].env

\* C2: when a guest's entry point returns normally after at least one
\* write_post_state_root, the root execute_code returns (and, at the top
\* level, the root process_shard_block stores) is the bytes guest memory held
\* at the offset of the last write_post_state_root call when it was made.
C2_LastWriteWins ==
    /\ (last_call.op \in {"block_return", "execcode_return"} /\ last_call.n_saves > 0)
          => last_call.root = last_call.saved
    /\ (last_call.op = "block_return" /\ last_call.n_saves > 0)
          => shard_state.exec_env_states[ReturnedEnv + 1] = last_call.saved

\* C2 witness: a block's guest returned after two writes of different roots
\* and changed its memory after the last one, so that the stored root is
\* nowhere in guest memory any more.
C2_Witness ==
    /\ last_call.op = "block_return"
    /\ last_call.n_saves = 2
    /\ last_call.prev # last_call.saved
    /\ shard_state.exec_env_states[ReturnedEnv + 1] = last_call.saved
    /\ \A p \in 0..(PageSize - RootLen) :
          MemGet(last_call.mem, p, RootLen).value # last_call.saved

\* C3: a host call whose offset/length range leaves the guest's memory (or the
\* block payload) ends the invocation Trapped and hands a result back to the
\* caller: the host process is not aborted.
C3_OutOfBoundsTraps ==
    last_call.oob => (host = "running" /\ Top.phase = "Trapped")

\* C4: block_data_copy(ptr, offset, length) with offset + length within the
\* payload (and the destination within guest memory) succeeds, writes
\* payload[offset .. offset+length) at [ptr, ptr+length) and leaves every other
\* byte of guest memory as it was.
C4_BlockDataCopy ==
    (/\ last_call.op = "blockdatacopy"
     /\ last_call.offset + last_call.length <= Len(Top.block_data)
     /\ last_call.ptr + last_call.length <= Len(last_call.mem))
    => /\ host = "running"
       /\ Top.memory.bytes =
            [i \in 1..Len(last_call.mem) |->
                IF i > last_call.ptr /\ i <= last_call.ptr + last_call.length
                THEN Top.block_data[last_call.offset + (i - last_call.ptr)]
                ELSE last_call.mem[i]]

\* C8: the number of nested sandboxed invocations in progress never exceeds
\* the configured hard cap.
C8_DepthCapped == Depth <= RecursionCap

\* C9: when a nested invocation completes, the exec_nested host call returns
\* the nested post-state root to the calling guest.
C9_NestedRootReturned ==
    last_call.op = "execcode_return" => last_call.ret = <<last_call.root>>

\* An invocation ended Trapped: a malformed module, a missing export, an
\* out-of-bounds host call or a trap of the guest.
Trapped ==
    \/ last_call.op = "module_malformed"
    \/ Depth > 0 /\ Top.phase = "Trapped"

\* C10: an invocation that ends Trapped yields a result (ExecutionTrap) to the
\* driver, which goes on without storing a post-state root for the block.
C10_TrapYieldsResult ==
    Trapped =>
        /\ host = "running"
        /\ Depth > 0 =>
              shard_state.exec_env_states[shard_blocks[block_idx].env + 1]
                  = frames[1].pre_state

\* C12: a push_new_deposit host call fails with a result (Unsupported) handed
\* back through the host-call interface: the host goes on running, the call
\* does not succeed and guest memory is as it was before the call.
C12_PushNewDepositUnsupported ==
    last_call.op = "pushnewdeposit" =>
        /\ host = "running"
        /\ Top.phase # "Running"
        /\ Top.memory.bytes = last_call.mem

\* The blocks before block k that have the env of block k.
EarlierSameEnv(k) == {j \in 1..(k - 1) : shard_blocks[j].env = shard_blocks[k].env}

\* The root block k is to be given: the root produced by the most recent
\* earlier block of its env, or the fixture's pre-state of that env.
ExpectedPreState(k) ==
    IF EarlierSameEnv(k) = {} THEN InitialRoot(shard_blocks[k].env)
    ELSE processed[Max(EarlierSameEnv(k))].post_state

\* C16: the blocks are processed one at a time in the fixture's order; each
\* block's invocation is given the root produced by the most recent earlier
\* block of the same env (the fixture's pre-state if there is none); the
\* final comparison is made when every block has been processed.
C16_BlocksInOrder ==
    /\ Len(processed) = block_idx - 1
    /\ Len(processed) <= Len(shard_blocks)
    /\ \A k \in 1..Len(processed) :
          /\ processed[k].env = shard_blocks[k].env
          /\ processed[k].pre_state = ExpectedPreState(k)
    /\ Depth > 0 =>
          /\ block_idx <= Len(shard_blocks)
          /\ frames[1].pre_state = ExpectedPreState(block_idx)
    /\ last_call.op = "assert_eq" =>
          /\ Depth = 0
          /\ Len(processed) = Len(shard_blocks)

\* C16 witness: two blocks of one env were processed, the second was given
\* the root the first produced, which is not the fixture's pre-state, and
\* the comparison followed.
C16_Witness ==
    /\ last_call.op = "assert_eq"
    /\ Len(processed) = 2
    /\ processed[1].env = processed[2].env
    /\ processed[2].pre_state = processed[1].post_state
    /\ processed[2].pre_state # InitialRoot(processed[2].env)
    /\ processed[1].post_state # ZERO_HASH

\* The host calls of Runtime::invoke_index.
HostCallOps ==
    {"loadprestateroot", "savepoststateroot", "blockdatasize", "blockdatacopy",
     "pushnewdeposit", "execcode"}

\* The runtime of the guest that made the last host call: the innermost one,
\* or the one below it when the call has just created a nested runtime.
Caller == IF Top.phase = "Created" THEN frames[Depth - 1] ELSE Top

\* C17: an invocation starts Created, becomes MemoryBound, then Running, and
\* ends either Completed (it returns and its runtime is gone) or Trapped,
\* after which nothing more happens to it.  Its runtime holds the host's page
\* until the guest's memory is bound and the guest's memory from then on; the
\* guest's memory changes, and host calls are made, only while the
\* invocation is Running, on the bound guest memory.
C17_InvocationLifecycle ==
    /\ [](\A k \in 1..Depth :
            /\ frames[k].phase \in {"Created", "MemoryBound", "Running", "Trapped"}
            /\ frames[k].phase = "Created" => frames[k].memory.owner = "host"
            /\ frames[k].phase \in {"MemoryBound", "Running"} =>
                  frames[k].memory.owner = "guest"
            /\ k < Depth => frames[k].phase = "Running")
    /\ [](last_call.op \in HostCallOps =>
            /\ Caller.memory.owner = "guest"
            /\ Caller.phase \in {"Running", "Trapped"}
            /\ Caller.memory.bytes = last_call.mem
                  \/ last_call.op \in {"loadprestateroot", "blockdatacopy"})
    /\ [][/\ Depth' > Depth =>
                /\ Depth' = Depth + 1
                /\ frames'[Depth'].phase = "Created"
                /\ frames'[Depth'].n_saves = 0
          /\ Depth' < Depth =>
                /\ Depth' = Depth - 1
                /\ Top.phase = "Running"
                /\ last_call'.op \in {"block_return", "execcode_return"}
          /\ \A k \in 1..Depth :
                /\ frames[k].phase # "Trapped"
                /\ k <= Depth' =>
                     /\ frames'[k].phase # frames[k].phase =>
                           \/ frames[k].phase = "Created"
                                 /\ frames'[k].phase \in {"MemoryBound", "Trapped"}
                           \/ frames[k].phase = "MemoryBound"
                                 /\ frames'[k].phase \in {"Running", "Trapped"}
                           \/ frames[k].phase = "Running"
                                 /\ frames'[k].phase = "Trapped"
                     /\ frames'[k].memory.bytes # frames[k].memory.bytes =>
                           /\ frames[k].phase = "Running"
                           /\ frames[k].memory.owner = "guest"
                     /\ frames'[k].n_saves # frames[k].n_saves =>
                           frames[k].phase = "Running"]_vars

\* C17 witness: a nested invocation, Running on its own bound memory, made a
\* host call that wrote that memory, below a parent that is still Running.
C17_Witness ==
    /\ Depth = 2
    /\ Top.phase = "Running"
    /\ Top.memory.owner = "guest"
    /\ last_call.op = "loadprestateroot"
    /\ Top.memory.bytes # last_call.mem
    /\ frames[1].phase = "Running"

\* C18: a nested invocation runs on an empty block payload, whatever the
\* payload of its parent (block_data_size called by the nested guest returns
\* 0), and on the pre-state root of its parent.
C18_NestedInputs ==
    /\ \A k \in 2..Depth :
          /\ frames[k].block_data = <<>>
          /\ frames[k].pre_state = frames[k - 1].pre_state
    /\ (last_call.op = "blockdatasize" /\ Depth >= 2) => last_call.ret = <<0>>
    /\ (last_call.op = "blockdatasize" /\ Depth = 1) =>
          last_call.ret = <<Len(shard_blocks[block_idx].data)>>
    /\ (last_call.op = "loadprestateroot" /\ Depth >= 1) =>
          last_call.root = frames[1].pre_state

\* C18 witness: a guest nested in a block with a payload asked for the size
\* of its block data and was told 0.
C18_Witness ==
    /\ Depth = 2
    /\ last_call.op = "blockdatasize"
    /\ last_call.ret = <<0>>
    /\ Len(frames[1].block_data) > 0
    /\ Top.pre_state = frames[1].pre_state

\* C19: no step of a nested invocation, its start and its return included,
\* changes the runtime of an invocation below it: the parent's post-state
\* root, pre-state root, block payload and memory after exec_nested returns
\* are those from before the call.
C19_ParentUntouched ==
    [][\A k \in 1..Depth :
          (k <= Depth' /\ (k < Depth \/ Depth' # Depth)) =>
              /\ frames'[k].post_state = frames[k].post_state
              /\ frames'[k].pre_state = frames[k].pre_state
              /\ frames'[k].block_data = frames[k].block_data
              /\ frames'[k].memory = frames[k].memory
              /\ frames'[k].n_saves = frames[k].n_saves]_vars

\* C19 witness: a nested guest wrote a post-state root and returned; the
\* parent, which had written another one before, still records its own.
C19_Witness ==
    /\ last_call.op = "execcode_return"
    /\ last_call.n_saves > 0
    /\ Depth = 1
    /\ Top.n_saves > 0
    /\ Top.post_state # last_call.root
    /\ Top.post_state = Top.last_save

\* C20: a step changes the shard state only when a block's invocation
\* returns, and then at most in the entry of the block's env: the other
\* entries, their number, the slot and the parent block header stay as they
\* were; a call without a block changes nothing of it.
C20_OnlyEnvEntry ==
    [][/\ shard_state' # shard_state =>
             /\ last_call'.op = "block_return"
             /\ Depth = 1
             /\ shard_state'.slot = shard_state.slot
             /\ shard_state'.parent_block = shard_state.parent_block
             /\ Len(shard_state'.exec_env_states) = Len(shard_state.exec_env_states)
             /\ \A e \in Envs : e # shard_blocks[block_idx].env =>
                   shard_state'.exec_env_states[e + 1]
                       = shard_state.exec_env_states[e + 1]
       /\ last_call'.op = "process_shard_block_none" =>
             /\ shard_state' = shard_state
             /\ frames' = frames
             /\ host' = host]_vars

\* C20 witness: a block of env 1 returned; the entry of env 1 holds its root
\* and the entry of env 0 the fixture's pre-state.
C20_Witness ==
    /\ last_call.op = "block_return"
    /\ ReturnedEnv = 1
    /\ shard_state.exec_env_states[2] = last_call.root
    /\ shard_state.exec_env_states[2] # InitialRoot(1)
    /\ shard_state.exec_env_states[1] = InitialRoot(0)
    /\ shard_state.slot = 0

\* C21: when a guest's entry point returns without any write_post_state_root,
\* execute_code returns the all-zero root, not the pre-state root, and at the
\* top level process_shard_block stores it as the state of the block's env.
C21_NoSaveGivesZero ==
    /\ (last_call.op \in {"block_return", "execcode_return"} /\ last_call.n_saves = 0)
          => last_call.root = ZERO_HASH
    /\ (last_call.op = "block_return" /\ last_call.n_saves = 0)
          => /\ shard_state.exec_env_states[ReturnedEnv + 1] = ZERO_HASH
             /\ processed[block_idx - 1].post_state = ZERO_HASH

\* C21 witness: a block's guest read its pre-state root, which is not zero,
\* and returned without a write; the env's state is now zero.
C21_Witness ==
    /\ last_call.op = "block_return"
    /\ last_call.n_saves = 0
    /\ processed[block_idx - 1].pre_state # ZERO_HASH
    /\ MemGet(last_call.mem, 0, RootLen).value = processed[block_idx - 1].pre_state
    /\ shard_state.exec_env_states[ReturnedEnv + 1] = ZERO_HASH

\* The root the block in progress was given: the state of its env, which
\* no step changes before the block returns.
GivenPreState == shard_state.exec_env_states[shard_blocks[block_idx].env + 1]

\* C22: the pre-state root of an invocation never changes while it lasts:
\* every read_pre_state_root that succeeds writes, at the offset given, the
\* root the invocation was given, whatever write_post_state_root,
\* block_data_copy or exec_nested calls came before it, changes no other
\* byte of guest memory and leaves the recorded post-state root as it was.
C22_PreStateReadOnly ==
    /\ [](\A k \in 1..Depth : frames[k].pre_state = GivenPreState)
    /\ []((last_call.op = "loadprestateroot" /\ ~last_call.oob) =>
            /\ host = "running"
            /\ last_call.root = GivenPreState
            /\ Top.memory.bytes =
                 [i \in 1..Len(last_call.mem) |->
                    IF i > last_call.ptr /\ i <= last_call.ptr + RootLen
                    THEN GivenPreState[i - last_call.ptr]
                    ELSE last_call.mem[i]])
    /\ [][/\ \A k \in 1..Depth :
                k <= Depth' => frames'[k].pre_state = frames[k].pre_state
          /\ last_call'.op = "loadprestateroot" =>
                /\ Depth' = Depth
                /\ frames'[Depth].post_state = Top.post_state
                /\ frames'[Depth].n_saves = Top.n_saves
                /\ frames'[Depth].block_data = Top.block_data
                /\ shard_state' = shard_state]_vars

\* C22 witness: a guest wrote a post-state root that is not its pre-state
\* root, then read the pre-state root over the bytes it had saved.
C22_Witness ==
    /\ last_call.op = "loadprestateroot"
    /\ ~last_call.oob
    /\ Top.n_saves > 0
    /\ Top.post_state # Top.pre_state
    /\ MemGet(last_call.mem, last_call.ptr, RootLen).value = Top.post_state
    /\ MemGet(Top.memory.bytes, last_call.ptr, RootLen).value = Top.pre_state

----------------------------------------------------------------------------
(* Properties of the Bazaar guest *)

TheBlock == shard_blocks[1].data

\* The root of the filled tree differs from the pre-state root.
Mismatch == guest.fill_root # <<>> /\ guest.fill_root # guest.pre_state_root

\* C1: when the root of the filled partial differs from the pre-state root,
\* process_block goes no further than its root check, where it fails
\* (PreStateMismatch); the guest saves no post-state root and
\* exec_env_states[env] keeps the value it had before the block.
C1_PreStateMismatch ==
    Mismatch =>
        /\ guest.pc \in {"check_root", "panicked"}
        /\ guest.pc = "panicked" => guest.failure = "PreStateMismatch"
        /\ Top.n_saves = 0
        /\ Top.post_state = ZERO_HASH
        /\ block_idx = 1
        /\ shard_state.exec_env_states[shard_blocks[1].env + 1] = Top.pre_state

\* C1 witness: process_block failed at the root check on a filled tree.
C1_Witness ==
    /\ Mismatch
    /\ guest.pc = "panicked"
    /\ guest.failure = "PreStateMismatch"
    /\ shard_state.exec_env_states[1] = guest.pre_state_root

\* The length the supplied pre-state holds (its length chunk, little-endian).
PreLen == PartialNew(TheBlock.state).cache[LEN_INDEX][1]

\* C5: once process_block has written the length field, it holds the total
\* number of records: those of the pre-state plus those the block adds.
C5_LengthIsTotal ==
    guest.pc \in {"refresh", "read_root", "save", "return", "returned"} =>
        guest.partial.cache[LEN_INDEX]
            = [i \in 1..BYTES_PER_CHUNK |->
                 IF i = 1 THEN PreLen + Len(TheBlock.new_messages) ELSE 0]

\* The fixture of tests::from_scratch on the empty pre-state.
FixtureScenario ==
    /\ TheBlock = InputBlock(TRUE, <<Msg1, Msg2>>,
                             SerializedPartial(<<31, 32, 33, 34, 8, 4, 2>>,
                                <<ZeroChunk, ZeroChunk, ZeroChunk, ZeroChunk,
                                  zero_hash(2), zero_hash(3), ZeroChunk>>))
    /\ guest.pc # "start" => guest.pre_state_root = hash_children(zero_hash(4), ZeroChunk)
    /\ guest.pc = "start" =>
          shard_state.exec_env_states[1] = hash_children(zero_hash(4), ZeroChunk)

Chunk1(b) == [i \in 1..BYTES_PER_CHUNK |-> IF i = 1 THEN b ELSE 0]
ChunkAll(b) == [i \in 1..BYTES_PER_CHUNK |-> b]

\* The root of the fixture's post-state, hashed by hand as in tests::from_scratch.
FixturePostRoot ==
    hash_children(
        hash_children(
            hash_children(
                hash_children(hash_children(Chunk1(1), ChunkAll(1)),
                              hash_children(Chunk1(2), ChunkAll(42))),
                zero_hash(2)),
            zero_hash(3)),
        Chunk1(2))

\* C6: on the fixture (empty list, messages {1, [1;32]} and {2, [42;32]})
\* no set_bytes and no refresh fails, and the root read after the refresh is
\* the bottom-up hash of the written leaves, zero_hash(2), zero_hash(3) and
\* the length chunk 2.
C6_FixtureRoot ==
    FixtureScenario =>
        /\ guest.pc # "panicked"
        /\ guest.pc \in {"save", "return", "returned"} => guest.ret = FixturePostRoot
        /\ guest.pc = "returned" => shard_state.exec_env_states[1] = FixturePostRoot

\* C6 witness: the fixture's run returned and its root was stored.
C6_Witness ==
    /\ FixtureScenario
    /\ guest.pc = "returned"
    /\ guest.ops = <<"fill", "root_check", "set_bytes", "set_bytes", "set_bytes",
                     "set_bytes", "set_len", "refresh", "root">>
    /\ shard_state.exec_env_states[1] = FixturePostRoot

\* Node n is supplied, or all of it below is.
RECURSIVE Known(_, _)
Known(n, idx) ==
    \/ n \in idx
    \/ /\ n < FIRST_LEAF
       /\ n # LEN_INDEX
       /\ Known(LeftChild(n), idx)
       /\ Known(RightChild(n), idx)

\* sp holds a leaf of the empty State, the sibling (or all that is below it)
\* of every node on the leaf's path to the root, and nothing but nodes of the
\* empty State.
CoversZeroPath(sp) ==
    /\ Len(sp.indices) = Len(sp.chunks)
    /\ \A k \in 1..Len(sp.indices) : sp.chunks[k] = TreeNode(sp.indices[k], <<>>, 0)
    /\ \E leaf \in Leaves :
          LET idx == {sp.indices[k] : k \in 1..Len(sp.indices)}
          IN /\ leaf \in idx
             /\ \A n \in ({leaf} \cup Ancestors(leaf)) \ {0} : Known(Sibling(n), idx)

\* fill has run (or has failed).
FillDone == guest.pc \notin {"start", "acquire", "decode", "fill"}

\* C7: on a partial that holds a leaf-to-root path of the empty State with
\* its siblings, fill succeeds and root() is the root of the complete
\* zero-filled tree hashed bottom-up; on the fixture's partial (31..34 zero,
\* 8 = zero_hash(2), 4 = zero_hash(3), 2 zero) it is
\* hash_children(zero_hash(4), zero chunk).
C7_FillRoot ==
    /\ (FillDone /\ TheBlock.valid /\ CoversZeroPath(TheBlock.state)) =>
          /\ guest.failure \notin {"fill", "NotComputed"}
          /\ guest.fill_root = TreeNode(0, <<>>, 0)
    /\ (FillDone /\ TheBlock.valid /\ TheBlock.state = FixturePartial) =>
          /\ guest.failure \notin {"fill", "NotComputed"}
          /\ guest.fill_root = hash_children(zero_hash(4), ZeroChunk)

\* C7 witness: fill has run on the fixture's partial and derived the root.
C7_Witness ==
    /\ guest.pc = "check_root"
    /\ TheBlock.state = FixturePartial
    /\ CoversZeroPath(TheBlock.state)
    /\ Root(guest.partial).value = hash_children(zero_hash(4), ZeroChunk)

----------------------------------------------------------------------------
(* Failures of the partial's operations *)

\* The library call process_block is about to make, and whether it fails.
NextOp ==
    IF guest.pc = "fill"
    THEN [name |-> "fill", fails |-> ~Fill(guest.block_data.state).ok]
    ELSE IF guest.pc = "set_timestamp"
    THEN [name |-> "set_bytes",
          fails |-> ~SetBytes(guest.partial, PathTimestamp(guest.i),
                       TimestampBytes(guest.block_data.new_messages[guest.i + 1].timestamp)).ok]
    ELSE IF guest.pc = "set_message"
    THEN [name |-> "set_bytes",
          fails |-> ~SetMessageBytes(guest.partial, guest.i,
                       guest.block_data.new_messages[guest.i + 1], 0).ok]
    ELSE IF guest.pc = "set_len"
    THEN [name |-> "set_bytes",
          fails |-> ~SetBytes(guest.partial, PathLen,
                       LenBytes(Len(guest.block_data.new_messages))).ok]
    ELSE IF guest.pc = "refresh"
    THEN [name |-> "refresh", fails |-> ~Refresh(guest.partial).ok]
    ELSE [name |-> "none", fails |-> FALSE]

\* C11: when fill, a set_bytes or refresh fails in process_block, the step
\* ends the transition and hands that failure back to the caller, which is
\* still running to receive it: process_block goes no further, the guest
\* saves no post-state root, exec_env_states[env] and the driver's position
\* stay as they were, and no step of the guest follows.
C11_FailureReturned ==
    /\ [][(BzRunning /\ NextOp.fails) =>
             /\ guest'.failure = NextOp.name
             /\ guest'.ops = guest.ops
             /\ guest'.ret = <<>>
             /\ frames'[1].n_saves = 0
             /\ frames'[1].post_state = ZERO_HASH
             /\ host' = "running"
             /\ shard_state' = shard_state
             /\ block_idx' = block_idx]_vars
    /\ [][guest.pc # "panicked"]_vars

----------------------------------------------------------------------------
(* Addressing of the tree's nodes *)

\* The leaves process_block writes on the fixture: both chunks of elements
\* 0 and 1.
WrittenLeaves == FIRST_LEAF..(FIRST_LEAF + 3)

\* The fixture's partial has been filled and process_block has not failed.
FixtureFilled ==
    /\ TheBlock.valid
    /\ TheBlock.state = FixturePartial
    /\ FillDone
    /\ guest.pc # "panicked"

\* The ancestors of node i when the root is node 1 and the parent of i is
\* i div 2.
RECURSIVE AncestorsRootIsOne(_)
AncestorsRootIsOne(i) ==
    IF i <= 1 THEN {} ELSE {i \div 2} \cup AncestorsRootIsOne(i \div 2)

----------------------------------------------------------------------------
(* Order of the partial's operations *)

\* The place of an operation in process_block.
OpRank(op) ==
    CASE op = "fill" -> 1
      [] op = "root_check" -> 2
      [] op = "set_bytes" -> 3
      [] op = "set_len" -> 4
      [] op = "refresh" -> 5
      [] op = "root" -> 6

\* The number of operations op among the first n made.
RECURSIVE CountOps(_, _)
CountOps(op, n) ==
    IF n = 0 THEN 0
    ELSE CountOps(op, n - 1) + (IF guest.ops[n] = op THEN 1 ELSE 0)

\* C15: in every run of process_block the operations made so far are, in
\* this order: fill, the root check, the set_bytes of the records (a
\* timestamp and a message for each new record), the set_bytes of the
\* length, one refresh, the root read.  No set_bytes follows the refresh and
\* the root is read, and then saved, only after the refresh has succeeded.
C15_OperationOrder ==
    LET ops == guest.ops
        n == Len(ops)
    IN /\ n > 0 => ops[1] = "fill"
       /\ \A k \in 1..(n - 1) :
             \/ ops[k] = "set_bytes" /\ ops[k + 1] \in {"set_bytes", "set_len"}
             \/ ops[k] = "root_check" /\ ops[k + 1] = "set_len"
                   /\ Len(guest.block_data.new_messages) = 0
             \/ ops[k] # "set_bytes" /\ OpRank(ops[k + 1]) = OpRank(ops[k]) + 1
       /\ CountOps("refresh", n) <= 1
       /\ CountOps("set_len", n) = 1 =>
             CountOps("set_bytes", n) = 2 * Len(guest.block_data.new_messages)
       /\ guest.pc \in {"read_root", "save", "return", "returned"} =>
             /\ CountOps("refresh", n) = 1
             /\ guest.partial.dirty = {}
       /\ guest.pc \in {"save", "return", "returned"} =>
             /\ ops[n] = "root"
             /\ ops[n - 1] = "refresh"
             /\ ops[n - 2] = "set_len"
       /\ (Depth > 0 /\ Top.n_saves > 0) => guest.pc \in {"return", "returned"}
       /\ guest.pc \in {"start", "acquire", "decode", "fill"} => n = 0

\* C15 witness: a block with one new record ran to its end.
C15_Witness ==
    /\ guest.pc = "returned"
    /\ Len(TheBlock.new_messages) = 1
    /\ guest.ops = <<"fill", "root_check", "set_bytes", "set_bytes", "set_len",
                     "refresh", "root">>
    /\ shard_state.exec_env_states[1] = guest.ret

====
